---- MODULE Spec2Model ----
(***************************************************************************)
(* Bus network journey enumeration (src/main.py, src/main_cache.py).       *)
(*                                                                         *)
(* State: the network built by the loader (fixed during queries), the      *)
(* class-level cache Stop.cache, the hit counter Stop.nbSkippedWithCache   *)
(* and the outcome of the last call.  `stack` holds the frames of a        *)
(* Stop.paths call that is executed step by step (SpecRun).                *)
(*                                                                         *)
(* A Schedule is an object without __eq__/__hash__: as a dictionary key it *)
(* is compared by identity.  A clock value is therefore a record with an   *)
(* `id` field naming the object besides its hour and minute.               *)
(*                                                                         *)
(* src/main_cache.py holds the same classes without the day type: its     *)
(* Stop.paths is the weekend = FALSE case of the one modelled here.        *)
(*                                                                         *)
(* A Path carries, besides the three fields of the class, the sequence of  *)
(* edges that were traversed to build it (history field `edges`); the code *)
(* never reads it.                                                         *)
(***************************************************************************)
EXTENDS Integers, Sequences, FiniteSets, TLC

VARIABLES network, cache, nbSkippedWithCache, last, stack, batch

vars == <<network, cache, nbSkippedWithCache, last, stack, batch>>

-----------------------------------------------------------------------------
(* Bounds *)

\* cap on the hit counter Stop.nbSkippedWithCache
MaxHits == 2

\* Stop.maxCache, scaled down from 2048 so that a full cache is reachable
maxCache == 2

\* the interpreter's recursion limit, scaled down (more than there are stops)
MaxDepth == 6

-----------------------------------------------------------------------------
(* Schedule *)

Clock(h, m, i) == [hour |-> h, minute |-> m, id |-> i]

\* mutant: compares the minutes only
LtMinuteOnly(self, other) == self.minute < other.minute

\* mutant: requires both components to be smaller
LtBoth(self, other) == self.hour < other.hour /\ self.minute < other.minute

\* Schedule.__lt__
Lt(self, other) == self.hour < other.hour \/ self.minute < other.minute

\* mutant: forgets the hours
DurationMinutesOnly(self, other) == self.minute - other.minute

\* Schedule.duration
Duration(self, other) ==
    (self.hour - other.hour) * 60 + self.minute - other.minute

\* lexicographic hour-then-minute order (the order the specification names)
LexLt(a, b) == a.hour < b.hour \/ (a.hour = b.hour /\ a.minute < b.minute)

LexLe(a, b) == ~LexLt(b, a)

-----------------------------------------------------------------------------
(* Path *)

Path(departure, stops, arrival, edges) ==
    [departure |-> departure, stops |-> stops, arrival |-> arrival,
     edges |-> edges]

\* Path.duration
PathDuration(p) == Duration(p.arrival, p.departure)

\* Path.is_foremost
IsForemost(self, other) == Lt(self.arrival, other.arrival)

\* mutant: the comparison of the stop counts is reversed
IsShorterReversed(self, other) ==
    IF Len(self.stops) = Len(other.stops)
    THEN IsForemost(self, other)
    ELSE Len(self.stops) > Len(other.stops)

\* Path.is_shorter
IsShorter(self, other) ==
    IF Len(self.stops) = Len(other.stops)
    THEN IsForemost(self, other)
    ELSE Len(self.stops) < Len(other.stops)

\* Path.is_faster
IsFaster(self, other) ==
    IF PathDuration(self) = PathDuration(other)
    THEN IsForemost(self, other)
    ELSE PathDuration(self) < PathDuration(other)

-----------------------------------------------------------------------------
(* Network *)

Stops == {"Stop1", "Stop2", "Stop3", "Stop4"}

\* an edge of a stop's list: the tuple (departure, arrival, neighbor)
Edge(dep, arr, target) == [dep |-> dep, arr |-> arr, target |-> target]

\* The timetable runs the loader may append, in timetable order.  Every
\* cell of a timetable is its own Schedule object.
Timetable == <<
    [src |-> "Stop1", weekend |-> FALSE,
     edge |-> Edge(Clock(8, 0, 11), Clock(8, 10, 21), "Stop2")],
    [src |-> "Stop2", weekend |-> FALSE,
     edge |-> Edge(Clock(8, 15, 12), Clock(8, 25, 22), "Stop3")],
    [src |-> "Stop1", weekend |-> FALSE,
     edge |-> Edge(Clock(8, 5, 13), Clock(8, 30, 23), "Stop3")],
    [src |-> "Stop3", weekend |-> FALSE,
     edge |-> Edge(Clock(8, 30, 14), Clock(8, 40, 24), "Stop4")],
    [src |-> "Stop3", weekend |-> FALSE,
     edge |-> Edge(Clock(8, 0, 15), Clock(8, 0, 25), "Stop1")],
    [src |-> "Stop1", weekend |-> FALSE,
     edge |-> Edge(Clock(8, 30, 16), Clock(9, 0, 26), "Stop3")],
    [src |-> "Stop3", weekend |-> FALSE,
     edge |-> Edge(Clock(9, 0, 17), Clock(9, 10, 27), "Stop4")],
    [src |-> "Stop1", weekend |-> TRUE,
     edge |-> Edge(Clock(8, 0, 18), Clock(8, 20, 28), "Stop3")],
    [src |-> "Stop1", weekend |-> FALSE,
     edge |-> Edge(Clock(7, 30, 19), Clock(7, 50, 29), "Stop3")],
    [src |-> "Stop1", weekend |-> FALSE,
     edge |-> Edge(Clock(8, 0, 30), Clock(8, 0, 40), "Stop2")],
    [src |-> "Stop2", weekend |-> FALSE,
     edge |-> Edge(Clock(8, 0, 31), Clock(8, 0, 41), "Stop3")],
    [src |-> "Stop1", weekend |-> FALSE,
     edge |-> Edge(Clock(8, 0, 32), Clock(8, 0, 42), "Stop3")],
    [src |-> "Stop3", weekend |-> FALSE,
     edge |-> Edge(Clock(8, 0, 33), Clock(8, 0, 43), "Stop2")],
    [src |-> "Stop2", weekend |-> FALSE,
     edge |-> Edge(Clock(8, 0, 34), Clock(8, 0, 44), "Stop1")]
>>

RECURSIVE EdgesOf(_, _, _, _)
\* the edges of the chosen runs that leave stop `name` on the given day type,
\* in timetable order (Network.addSchedules appends in that order)
EdgesOf(chosen, name, weekend, i) ==
    IF i > Len(Timetable) THEN <<>>
    ELSE IF i \in chosen /\ Timetable[i].src = name
            /\ Timetable[i].weekend = weekend
         THEN <<Timetable[i].edge>> \o EdgesOf(chosen, name, weekend, i + 1)
         ELSE EdgesOf(chosen, name, weekend, i + 1)

\* Stop.__init__ for every stop of the network
NetworkOf(chosen) ==
    [name \in Stops |->
        [neighbors        |-> EdgesOf(chosen, name, FALSE, 1),
         neighborsWeekend |-> EdgesOf(chosen, name, TRUE, 1)]]

\* the timetables the loader is given: the runs of each, by number
Timetables ==
    { {},                 \* stops without any run
      {1, 2, 3},          \* a line with two hops and a direct run
      {1, 2, 3, 8},       \* the same with a weekend run
      {1, 2, 4, 5},       \* a line with a return run, closing a ring
      {3, 6},             \* two direct runs, the later one arriving at 9:00
      {3, 4, 7, 8},       \* connections before and after 9:00
      {9},                \* a single run, gone before 8:00
      {5, 10, 11, 12, 13, 14},  \* three stops in a ring, a run in each
                                \* direction, all times equal
      {1, 2, 3, 4, 5, 6, 7, 8, 9} }

Networks == {NetworkOf(chosen) : chosen \in Timetables}

\* the stops queries start from and the stops they ask for
Origins == {"Stop1", "Stop3"}

Termini == {"Stop3", "Stop4"}

\* the departure objects a caller passes to a query: two Schedule objects
\* with the same hour and minute
QueryTimes == {Clock(8, 0, 1), Clock(8, 0, 2)}

-----------------------------------------------------------------------------
(* Stop.paths *)

EmptyCache == [k \in {} |-> <<>>]

\* mutant: the stop is appended instead of prepended
StopAddAfter(self, path) == path.stops \o <<self>>

\* Stop.__add__ with a Path
StopAdd(self, path) == <<self>> \o path.stops

CacheKey(self, terminus, departure) == <<self, terminus, departure.id>>

\* mutant: storing an entry evicts the others
CachePutEvict(c, key, paths) == [k \in {key} |-> paths]

\* the assignment Stop.cache[cacheTuple] = paths
CachePut(c, key, paths) ==
    [k \in DOMAIN c \cup {key} |-> IF k = key THEN paths ELSE c[k]]

\* mutant: a neighbor is skipped for its time only, ancestors are entered
SkippedByTimeOnly(e, departure, explored) == Lt(e.dep, departure)

\* the two `continue` tests of the for loop of Stop.paths
Skipped(e, departure, explored) ==
    Lt(e.dep, departure) \/ e.target \in explored

\* mutant: off by one, the cache takes one entry more than maxCache
CacheHasRoomOneMore(c) == Cardinality(DOMAIN c) <= maxCache

\* the test len(Stop.cache) < Stop.maxCache
CacheHasRoom(c) == Cardinality(DOMAIN c) < maxCache

RECURSIVE PathsRec(_, _, _, _, _, _, _, _)
RECURSIVE Scan(_, _, _, _, _, _, _, _, _, _, _)

\* the for loop of Stop.paths, from neighbor number i on; acc are the paths
\* appended so far, c and hits the cache and the hit counter at this point
Scan(net, c, hits, self, terminus, departure, weekend, explored, neighborsToSearch, i, acc) ==
    IF i > Len(neighborsToSearch)
    THEN [paths |-> acc, cache |-> c, hits |-> hits]
    ELSE LET e == neighborsToSearch[i]
         IN IF Skipped(e, departure, explored)
            THEN Scan(net, c, hits, self, terminus, departure, weekend,
                      explored, neighborsToSearch, i + 1, acc)
            ELSE LET sub == PathsRec(net, c, hits, e.target, terminus,
                                     e.arr, weekend, explored)
                     new == [j \in 1..Len(sub.paths) |->
                                Path(e.dep, StopAdd(self, sub.paths[j]),
                                     sub.paths[j].arrival,
                                     <<e>> \o sub.paths[j].edges)]
                 IN Scan(net, sub.cache, sub.hits, self, terminus, departure,
                         weekend, explored, neighborsToSearch, i + 1,
                         acc \o new)

\* Stop.paths: the result, and the cache and hit counter it leaves
PathsRec(net, c, hits, self, terminus, departure, weekend, _explored) ==
    LET explored == {self} \cup _explored
        cacheTuple == CacheKey(self, terminus, departure)
    IN IF self = terminus
       THEN [paths |-> <<Path(departure, <<self>>, departure, <<>>)>>,
             cache |-> c, hits |-> hits]
       ELSE IF cacheTuple \in DOMAIN c
       THEN [paths |-> c[cacheTuple], cache |-> c, hits |-> hits + 1]
       ELSE LET neighborsToSearch ==
                    IF weekend THEN net[self].neighborsWeekend
                    ELSE net[self].neighbors
                r == Scan(net, c, hits, self, terminus, departure, weekend,
                          explored, neighborsToSearch, 1, <<>>)
            IN [paths |-> r.paths,
                cache |-> IF CacheHasRoom(r.cache)
                          THEN CachePut(r.cache, cacheTuple, r.paths)
                          ELSE r.cache,
                hits |-> r.hits]

-----------------------------------------------------------------------------
(* Stop.best_paths *)

RECURSIVE BestScan(_, _, _)
\* the for loop of Stop.best_paths from index i on
BestScan(paths, i, best) ==
    IF i > Len(paths) THEN best
    ELSE LET path == paths[i]
         IN BestScan(paths, i + 1,
                [foremost |-> IF IsForemost(path, best.foremost)
                              THEN path ELSE best.foremost,
                 shortest |-> IF IsShorter(path, best.shortest)
                              THEN path ELSE best.shortest,
                 fastest  |-> IF IsFaster(path, best.fastest)
                              THEN path ELSE best.fastest])

NoBest == [count |-> 0]

\* mutant: a single path is taken for no path
RaisesUnlessSeveral(paths) == Len(paths) <= 1

\* the test `if not paths` before raise NoPathException
Raises(paths) == paths = <<>>

\* the 4-tuple Stop.best_paths returns for a non-empty list
BestOf(paths) ==
    LET b == BestScan(paths, 2, [foremost |-> paths[1],
                                 shortest |-> paths[1],
                                 fastest  |-> paths[1]])
    IN [count |-> Len(paths), foremost |-> b.foremost,
        shortest |-> b.shortest, fastest |-> b.fastest]

-----------------------------------------------------------------------------
(* Operations *)

NoCall == [op |-> "none"]

\* no batch operation has been called; `born` records, for every key of the
\* cache, the batch call, cutoff and weekend flag whose query stored it, and
\* `log` the destinations queried by the running call
NoBatch ==
    [pc |-> "idle", op |-> "none", calls |-> 0, departure |-> "Stop1",
     horaires |-> <<>>, weekend |-> FALSE, h |-> 0, dests |-> <<>>, d |-> 0,
     log |-> <<>>, born |-> <<>>]

Init ==
    /\ network \in Networks
    /\ cache = EmptyCache
    /\ nbSkippedWithCache = 0
    /\ last = NoCall
    /\ stack = <<>>
    /\ batch = NoBatch

\* a call origin.paths(terminus, departure, weekend) by a client
Paths(origin, terminus, departure, weekend) ==
    LET r == PathsRec(network, cache, nbSkippedWithCache, origin, terminus,
                      departure, weekend, {})
    IN /\ r.hits <= MaxHits
       /\ cache' = r.cache
       /\ nbSkippedWithCache' = r.hits
       /\ last' = [op |-> "paths", origin |-> origin, terminus |-> terminus,
                   departure |-> departure, weekend |-> weekend,
                   cold |-> cache = EmptyCache,
                   paths |-> r.paths, raised |-> FALSE, best |-> NoBest]
       /\ UNCHANGED <<batch, network, stack>>

\* a call origin.best_paths(terminus, departure, weekend)
BestPaths(origin, terminus, departure, weekend) ==
    LET r == PathsRec(network, cache, nbSkippedWithCache, origin, terminus,
                      departure, weekend, {})
    IN /\ r.hits <= MaxHits
       /\ cache' = r.cache
       /\ nbSkippedWithCache' = r.hits
       /\ last' = [op |-> "best_paths", origin |-> origin,
                   terminus |-> terminus,
                   departure |-> departure, weekend |-> weekend,
                   cold |-> cache = EmptyCache,
                   paths |-> r.paths, raised |-> Raises(r.paths),
                   best |-> IF Raises(r.paths) THEN NoBest
                            ELSE BestOf(r.paths)]
       /\ UNCHANGED <<batch, network, stack>>

\* Stop.reset_cache
ResetCache ==
    /\ cache' = EmptyCache
    /\ nbSkippedWithCache' = 0
    /\ last' = [op |-> "reset_cache"]
    /\ UNCHANGED <<batch, network, stack>>

Next ==
    \/ \E origin \in Origins, terminus \in Termini, departure \in QueryTimes,
          weekend \in BOOLEAN : Paths(origin, terminus, departure, weekend)
    \/ \E origin \in Origins, terminus \in Termini, departure \in QueryTimes,
          weekend \in BOOLEAN : BestPaths(origin, terminus, departure, weekend)
    \/ ResetCache

Spec == Init /\ [][Next]_vars

-----------------------------------------------------------------------------
(* Stop.paths, one step at a time *)

\* A frame of a running Stop.paths call: its arguments, `explored` as
\* computed on entry, the index i of the neighbor the for loop is at (0
\* before the loop is reached) and the list `paths` built so far.
Frame(self, terminus, departure, weekend, _explored) ==
    [self |-> self, terminus |-> terminus, departure |-> departure,
     weekend |-> weekend, explored |-> {self} \cup _explored,
     i |-> 0, paths |-> <<>>]

Top == stack[Len(stack)]

NeighborsToSearch(f) ==
    IF f.weekend THEN network[f.self].neighborsWeekend
    ELSE network[f.self].neighbors

\* the top frame returns `value`: the calling frame appends one new Path per
\* returned path and moves to its next neighbor; the outermost call hands
\* the list to the client (kept with the arguments of the call and the cache
\* and hit counter the call found)
Return(value) ==
    LET rest == SubSeq(stack, 1, Len(stack) - 1)
    IN IF rest = <<>>
       THEN /\ stack' = <<>>
            /\ last' = [op |-> "returned", origin |-> Top.self,
                        terminus |-> Top.terminus,
                        departure |-> Top.departure,
                        weekend |-> Top.weekend,
                        cache |-> last.cache, hits |-> last.hits,
                        paths |-> value]
       ELSE LET caller == rest[Len(rest)]
                e == NeighborsToSearch(caller)[caller.i]
                new == [j \in 1..Len(value) |->
                           Path(e.dep, StopAdd(caller.self, value[j]),
                                value[j].arrival, <<e>> \o value[j].edges)]
            IN /\ stack' = [rest EXCEPT ![Len(rest)] =
                               [caller EXCEPT !.paths = @ \o new,
                                              !.i = @ + 1]]
               /\ UNCHANGED last

\* a client calls origin.paths(terminus, departure, weekend)
RunCall(origin, terminus, departure, weekend) ==
    /\ stack = <<>>
    /\ nbSkippedWithCache < MaxHits
    /\ stack' = <<Frame(origin, terminus, departure, weekend, {})>>
    /\ last' = [op |-> "running", cache |-> cache,
                hits |-> nbSkippedWithCache]
    /\ UNCHANGED <<batch, network, cache, nbSkippedWithCache>>

\* the top frame runs from its entry to the for loop: the base case and the
\* cache lookup
RunEnter ==
    /\ stack # <<>> /\ Top.i = 0
    /\ LET cacheTuple == CacheKey(Top.self, Top.terminus, Top.departure)
       IN IF Top.self = Top.terminus
          THEN /\ UNCHANGED <<cache, nbSkippedWithCache>>
               /\ Return(<<Path(Top.departure, <<Top.self>>, Top.departure,
                                <<>>)>>)
          ELSE IF cacheTuple \in DOMAIN cache
          THEN /\ nbSkippedWithCache' = nbSkippedWithCache + 1
               /\ UNCHANGED cache
               /\ Return(cache[cacheTuple])
          ELSE /\ stack' = [stack EXCEPT ![Len(stack)].i = 1]
               /\ UNCHANGED <<cache, nbSkippedWithCache, last>>
    /\ UNCHANGED <<batch, network>>

\* the top frame runs one turn of its for loop, or leaves the loop, stores
\* its list and returns it; a call deeper than the recursion limit raises
\* RecursionError through every frame
RunLoop ==
    /\ stack # <<>> /\ Top.i >= 1
    /\ UNCHANGED <<batch, network, nbSkippedWithCache>>
    /\ IF Top.i > Len(NeighborsToSearch(Top))
       THEN /\ cache' = IF CacheHasRoom(cache)
                        THEN CachePut(cache,
                                 CacheKey(Top.self, Top.terminus,
                                          Top.departure), Top.paths)
                        ELSE cache
            /\ Return(Top.paths)
       ELSE LET e == NeighborsToSearch(Top)[Top.i]
            IN /\ IF Skipped(e, Top.departure, Top.explored)
                  THEN /\ stack' = [stack EXCEPT ![Len(stack)].i = @ + 1]
                       /\ UNCHANGED last
                  ELSE IF Len(stack) < MaxDepth
                  THEN /\ stack' = Append(stack,
                                      Frame(e.target, Top.terminus, e.arr,
                                            Top.weekend, Top.explored))
                       /\ UNCHANGED last
                  ELSE /\ stack' = <<>>
                       /\ last' = [op |-> "RecursionError"]
               /\ UNCHANGED cache

\* Stop.reset_cache between two calls
RunReset ==
    /\ stack = <<>>
    /\ last.op = "returned"
    /\ cache' = EmptyCache
    /\ nbSkippedWithCache' = 0
    /\ last' = [op |-> "reset_cache"]
    /\ UNCHANGED <<batch, network, stack>>

NextRun ==
    \/ \E origin \in Origins, terminus \in Termini, departure \in QueryTimes,
          weekend \in BOOLEAN : RunCall(origin, terminus, departure, weekend)
    \/ RunEnter
    \/ RunLoop
    \/ RunReset

\* the interpreter runs a started call on: no step of it waits for anything
SpecRun == Init /\ [][NextRun]_vars /\ WF_vars(RunEnter) /\ WF_vars(RunLoop)

-----------------------------------------------------------------------------
(* Vocabulary of the properties *)

\* the last operation was a query and returned (or raised)
Called == last.op \in {"paths", "best_paths"}

\* the last query found the cache empty
CalledCold == Called /\ last.cold

SameTime(a, b) == a.hour = b.hour /\ a.minute = b.minute

NoRepeat(seq) ==
    \A i, j \in DOMAIN seq : i # j => seq[i] # seq[j]

\* what a client can see of a path sequence: stops, departure and arrival
Visible(paths) ==
    [i \in DOMAIN paths |->
        <<paths[i].stops,
          paths[i].departure.hour, paths[i].departure.minute,
          paths[i].arrival.hour, paths[i].arrival.minute>>]

\* the same query as the last one, made on an empty cache
ColdPaths ==
    PathsRec(network, EmptyCache, 0, last.origin, last.terminus,
             last.departure, last.weekend, {}).paths

SelectedEdges(name, weekend) ==
    LET l == IF weekend THEN network[name].neighborsWeekend
             ELSE network[name].neighbors
    IN {l[i] : i \in DOMAIN l}

RECURSIVE Journeys(_, _, _, _, _)
\* every chain of selected edges from `stop` to `terminus` that enters no
\* stop of `visited` and whose edges depart, in lexicographic order, not
\* before `frontier`, respectively the arrival of the edge before
Journeys(stop, terminus, frontier, weekend, visited) ==
    IF stop = terminus THEN {<<>>}
    ELSE UNION {
            {<<e>> \o j :
                j \in Journeys(e.target, terminus, e.arr, weekend,
                               visited \cup {e.target})} :
            e \in {x \in SelectedEdges(stop, weekend) :
                      LexLe(frontier, x.dep) /\ x.target \notin visited} }

\* the stops a chain of edges from `origin` goes through
StopsOf(origin, j) ==
    [k \in 1..(Len(j) + 1) |-> IF k = 1 THEN origin ELSE j[k - 1].target]

\* path p is the journey j from the origin of the last query
IsJourney(p, j) ==
    /\ p.stops = StopsOf(last.origin, j)
    /\ IF j = <<>>
       THEN SameTime(p.departure, last.departure)
            /\ SameTime(p.arrival, last.departure)
       ELSE SameTime(p.departure, j[1].dep)
            /\ SameTime(p.arrival, j[Len(j)].arr)

-----------------------------------------------------------------------------
(* Properties of Stop.paths *)

\* C1: every path a Stop.paths call returns, whatever the cache holds from
\* earlier calls, contains no stop name twice.
C1_NoRepeatedStop ==
    Called => \A i \in DOMAIN last.paths : NoRepeat(last.paths[i].stops)

\* C2: a query answered with a warmed cache returns the same sequence of
\* paths (stops, departures, arrivals, order) as on an empty cache.
C2_CacheTransparent ==
    Called => Visible(last.paths) = Visible(ColdPaths)

\* C3: on an empty cache the result contains every simple chain of selected
\* edges from origin to terminus whose departures are, lexicographically,
\* not before the query departure and the previous arrival.
C3_Complete ==
    CalledCold =>
        \A j \in Journeys(last.origin, last.terminus, last.departure,
                          last.weekend, {last.origin}) :
            \E i \in DOMAIN last.paths : IsJourney(last.paths[i], j)

\* the recorded edges of path p are the ones its stops were built from
EdgesMatch(p) ==
    /\ Len(p.stops) = Len(p.edges) + 1
    /\ \A k \in DOMAIN p.edges :
          /\ p.stops[k + 1] = p.edges[k].target
          /\ \E w \in BOOLEAN : p.edges[k] \in SelectedEdges(p.stops[k], w)
    /\ p.edges # <<>> =>
          /\ p.departure = p.edges[1].dep
          /\ p.arrival = p.edges[Len(p.edges)].arr

\* C4: in every returned path the first edge departs, lexicographically,
\* not before the query departure and every later edge not before the
\* arrival of the edge before it, also when the cache was warm.
C4_Admissible ==
    Called =>
        \A i \in DOMAIN last.paths :
            LET p == last.paths[i]
            IN /\ EdgesMatch(p)
               /\ p.edges # <<>> => LexLe(last.departure, p.edges[1].dep)
               /\ \A k \in DOMAIN p.edges :
                     k > 1 => LexLe(p.edges[k - 1].arr, p.edges[k].dep)

\* C4 witness: a query served partly from the cache returned a path of
\* three edges while a run that left before the query time was skipped
C4_Witness ==
    /\ Called /\ ~last.cold /\ nbSkippedWithCache > 0
    /\ \E i \in DOMAIN last.paths : Len(last.paths[i].edges) >= 3
    /\ \E e \in SelectedEdges(last.origin, last.weekend) :
          LexLt(e.dep, last.departure)

-----------------------------------------------------------------------------
(* Properties of Stop.best_paths *)

\* the last operation was best_paths and it returned its 4-tuple
Selected == last.op = "best_paths" /\ ~last.raised

\* C5: the foremost path arrives, lexicographically, no later than any
\* path of the scanned sequence, and is the first of the sequence with
\* that arrival.
C5_Foremost ==
    Selected =>
        /\ \A i \in DOMAIN last.paths :
              LexLe(last.best.foremost.arrival, last.paths[i].arrival)
        /\ \E k \in DOMAIN last.paths :
              /\ last.paths[k] = last.best.foremost
              /\ \A j \in 1..(k - 1) :
                    ~SameTime(last.paths[j].arrival,
                              last.best.foremost.arrival)

\* C6: the shortest path has no more stops than any path of the scanned
\* sequence.
C6_Shortest ==
    Selected =>
        \A i \in DOMAIN last.paths :
            Len(last.best.shortest.stops) <= Len(last.paths[i].stops)

\* C6 witness: the scan replaced the first path by a later one with fewer
\* stops
C6_Witness ==
    /\ Selected
    /\ Len(last.paths) >= 2
    /\ Len(last.best.shortest.stops) < Len(last.paths[1].stops)

\* arrival minus departure of a path, in minutes
Minutes(p) ==
    (p.arrival.hour * 60 + p.arrival.minute)
        - (p.departure.hour * 60 + p.departure.minute)

\* C7: the fastest path has a duration, arrival minus departure in minutes,
\* not larger than that of any path of the scanned sequence.
C7_Fastest ==
    Selected =>
        \A i \in DOMAIN last.paths :
            Minutes(last.best.fastest) <= Minutes(last.paths[i])

\* C7 witness: the scan replaced the first path by a later, strictly
\* faster one
C7_Witness ==
    /\ Selected
    /\ Len(last.paths) >= 2
    /\ Minutes(last.best.fastest) < Minutes(last.paths[1])

\* C8: among the paths with the minimal stop count the shortest path
\* arrives, lexicographically, not later than any other; among the paths
\* with the minimal duration the fastest path does.
C8_TieBreak ==
    Selected =>
        \A i \in DOMAIN last.paths :
            /\ Len(last.paths[i].stops) = Len(last.best.shortest.stops)
                  => LexLe(last.best.shortest.arrival, last.paths[i].arrival)
            /\ Minutes(last.paths[i]) = Minutes(last.best.fastest)
                  => LexLe(last.best.fastest.arrival, last.paths[i].arrival)

\* the weekday edges of the example: Stop1 -(08:00,08:10)-> Stop2,
\* Stop2 -(08:15,08:25)-> Stop3 and Stop1 -(08:05,08:30)-> Stop3
ExampleNetwork ==
    \A name \in Stops :
        {<<e.dep.hour, e.dep.minute, e.arr.hour, e.arr.minute, e.target>> :
            e \in SelectedEdges(name, FALSE)}
        = CASE name = "Stop1" -> {<<8, 0, 8, 10, "Stop2">>,
                                  <<8, 5, 8, 30, "Stop3">>}
            [] name = "Stop2" -> {<<8, 15, 8, 25, "Stop3">>}
            [] OTHER -> {}

ExampleQuery ==
    /\ ExampleNetwork
    /\ last.op = "best_paths" /\ last.cold
    /\ last.origin = "Stop1" /\ last.terminus = "Stop3"
    /\ last.departure.hour = 8 /\ last.departure.minute = 0
    /\ ~last.weekend

\* C9: on the example network with an empty cache,
\* Stop1.best_paths("Stop3", 08:00) returns count 2, foremost and fastest
\* the path Stop1,Stop2,Stop3 arriving 08:25, shortest the direct path.
C9_Example ==
    ExampleQuery =>
        /\ ~last.raised
        /\ last.best.count = 2
        /\ last.best.foremost.stops = <<"Stop1", "Stop2", "Stop3">>
        /\ last.best.foremost.arrival.hour = 8
        /\ last.best.foremost.arrival.minute = 25
        /\ last.best.shortest.stops = <<"Stop1", "Stop3">>
        /\ last.best.fastest.stops = <<"Stop1", "Stop2", "Stop3">>
        /\ Minutes(last.best.fastest) = 25
        /\ Minutes(last.best.shortest) = 25

\* C9 witness: the example query was made and answered
C9_Witness == ExampleQuery /\ last.best.count = 2

\* every edge of the selected lists left before the query departure
AllDeparted ==
    \A name \in Stops :
        \A e \in SelectedEdges(name, last.weekend) :
            LexLt(e.dep, last.departure)

\* C10: when origin and terminus differ and the query departure is,
\* lexicographically, later than the departure of every selected edge,
\* Stop.paths on an empty cache returns the empty sequence and
\* Stop.best_paths raises NoPathException.
C10_NoPath ==
    (CalledCold /\ last.origin # last.terminus /\ AllDeparted) =>
        /\ last.paths = <<>>
        /\ last.op = "best_paths" => last.raised

\* C10 witness: best_paths raised for an origin whose runs had all left
C10_Witness ==
    /\ last.op = "best_paths" /\ last.cold /\ last.raised
    /\ last.origin # last.terminus
    /\ AllDeparted
    /\ SelectedEdges(last.origin, last.weekend) # {}

-----------------------------------------------------------------------------
(* Stop.filter and Network.filter *)

\* Network.stops, in list order
StopList == <<"Stop1", "Stop2", "Stop3", "Stop4">>

\* the cutoff objects a caller passes to filter
FilterTimes == QueryTimes \cup {Clock(8, 30, 3)}

\* the condition of the list comprehension of Stop.filter
Kept(neighbor, horaire) == ~Lt(neighbor.dep, horaire)

\* the Stop that Stop.filter returns: the kept neighbors of the selected
\* list become its neighbors, its weekend list is empty
StopFilter(net, name, horaire, weekend) ==
    LET neighborsToFilter == IF weekend THEN net[name].neighborsWeekend
                             ELSE net[name].neighbors
    IN [name |-> name,
        neighbors |-> SelectSeq(neighborsToFilter,
                                LAMBDA neighbor : Kept(neighbor, horaire)),
        neighborsWeekend |-> <<>>]

\* the list of stops of the Network that Network.filter returns
NetworkFilter(net, horaire, weekend) ==
    [i \in DOMAIN StopList |-> StopFilter(net, StopList[i], horaire, weekend)]

\* mutant: the stop's own list of neighbors is filtered in place
FilteredInPlace(net, name, horaire, weekend) ==
    [net EXCEPT ![name].neighbors =
        StopFilter(net, name, horaire, weekend).neighbors]

\* the stops of the source network after stop `name` was filtered: the list
\* comprehension builds a new list, no attribute of the stop is assigned
SourceAfterFilter(net, name, horaire, weekend) == net

RECURSIVE SourceAfterFilters(_, _, _, _)
\* the stops of the source network after the stops from number i on were
\* filtered
SourceAfterFilters(net, horaire, weekend, i) ==
    IF i > Len(StopList) THEN net
    ELSE SourceAfterFilters(
             SourceAfterFilter(net, StopList[i], horaire, weekend),
             horaire, weekend, i + 1)

\* a call network[name].filter(horaire, weekend)
FilterStop(name, horaire, weekend) ==
    /\ network' = SourceAfterFilter(network, name, horaire, weekend)
    /\ last' = [op |-> "filter", name |-> name, horaire |-> horaire,
                weekend |-> weekend,
                result |-> StopFilter(network, name, horaire, weekend)]
    /\ UNCHANGED <<cache, nbSkippedWithCache, stack, batch>>

\* a call network.filter(horaire, weekend)
FilterNetwork(horaire, weekend) ==
    /\ network' = SourceAfterFilters(network, horaire, weekend, 1)
    /\ last' = [op |-> "network_filter", horaire |-> horaire,
                weekend |-> weekend,
                result |-> NetworkFilter(network, horaire, weekend)]
    /\ UNCHANGED <<cache, nbSkippedWithCache, stack, batch>>

NextFilter ==
    \/ \E origin \in Origins, terminus \in Termini, departure \in QueryTimes,
          weekend \in BOOLEAN : Paths(origin, terminus, departure, weekend)
    \/ \E name \in Stops, horaire \in FilterTimes, weekend \in BOOLEAN :
          FilterStop(name, horaire, weekend)
    \/ \E horaire \in FilterTimes, weekend \in BOOLEAN :
          FilterNetwork(horaire, weekend)

SpecFilter == Init /\ [][NextFilter]_vars

-----------------------------------------------------------------------------
(* displayBestPaths and displayStats, one destination at a time *)

\* the number of batch calls of a run
MaxBatches == 2

\* the lists of cutoff objects a caller passes as `horaires`
HorairesLists ==
    {<<>>, <<Clock(8, 0, 1)>>, <<Clock(8, 0, 1), Clock(8, 30, 3)>>,
     <<Clock(8, 30, 3), Clock(8, 0, 1)>>}

BatchOps == {"displayBestPaths", "displayStats"}

\* mutant: NoPathException leaves the loop over the destinations
PropagatesNoPath(raised) == raised

\* whether the exception of a destination leaves the batch: NoPathException
\* is caught in Stop.display_best_paths and in the try of displayStats
Propagates(raised) == FALSE

\* `born` after a query turned the cache from c to c2
Born(born, c, c2, tag) ==
    [k \in DOMAIN c2 |-> IF k \in DOMAIN c THEN born[k] ELSE tag]

\* a client calls displayBestPaths or displayStats
BatchCall(op, departure, horaires, weekend) ==
    /\ batch.pc \in {"idle", "done"}
    /\ batch.calls < MaxBatches
    /\ batch' = [batch EXCEPT !.pc = "horaire", !.op = op,
                              !.calls = @ + 1, !.departure = departure,
                              !.horaires = horaires, !.weekend = weekend,
                              !.h = 1, !.dests = <<>>, !.d = 0,
                              !.log = <<>>]
    /\ UNCHANGED <<network, cache, nbSkippedWithCache, last, stack>>

\* the next cutoff of the list: network.filter(horaire, weekend)
BatchFilter ==
    /\ batch.pc = "horaire"
    /\ batch.h <= Len(batch.horaires)
    /\ LET horaire == batch.horaires[batch.h]
           stopsFiltered == NetworkFilter(network, horaire, batch.weekend)
       IN /\ network' =
                 SourceAfterFilters(network, horaire, batch.weekend, 1)
          /\ batch' = [batch EXCEPT
                          !.pc = "stop",
                          !.dests = [i \in DOMAIN stopsFiltered |->
                                        stopsFiltered[i].name],
                          !.d = 1]
    /\ UNCHANGED <<cache, nbSkippedWithCache, last, stack>>

\* the next stop of the filtered network: departure.best_paths(stop.name,
\* horaire, weekend), displayed or timed, NoPathException caught
BatchQuery ==
    /\ batch.pc = "stop"
    /\ batch.d <= Len(batch.dests)
    /\ LET horaire == batch.horaires[batch.h]
           terminus == batch.dests[batch.d]
           r == PathsRec(network, cache, nbSkippedWithCache,
                         batch.departure, terminus, horaire, batch.weekend,
                         {})
           raised == Raises(r.paths)
       IN /\ cache' = r.cache
          /\ nbSkippedWithCache' = r.hits
          /\ batch' = [batch EXCEPT
                          !.pc = IF Propagates(raised) THEN "aborted"
                                 ELSE "stop",
                          !.d = @ + 1,
                          !.log = Append(@, [h |-> batch.h,
                                             terminus |-> terminus,
                                             raised |-> raised]),
                          !.born = Born(@, cache, r.cache,
                                        [calls |-> batch.calls,
                                         h |-> batch.h,
                                         weekend |-> batch.weekend])]
    /\ UNCHANGED <<network, last, stack>>

\* the end of the loop over the stops: displayStats resets the cache,
\* displayBestPaths does not
BatchNextHoraire ==
    /\ batch.pc = "stop"
    /\ batch.d > Len(batch.dests)
    /\ IF batch.op = "displayStats"
       THEN /\ cache' = EmptyCache
            /\ nbSkippedWithCache' = 0
            /\ batch' = [batch EXCEPT !.pc = "horaire", !.h = @ + 1,
                                      !.born = <<>>]
       ELSE /\ batch' = [batch EXCEPT !.pc = "horaire", !.h = @ + 1]
            /\ UNCHANGED <<cache, nbSkippedWithCache>>
    /\ UNCHANGED <<network, last, stack>>

\* the end of the loop over the cutoffs
BatchReturn ==
    /\ batch.pc = "horaire"
    /\ batch.h > Len(batch.horaires)
    /\ batch' = [batch EXCEPT !.pc = "done"]
    /\ UNCHANGED <<network, cache, nbSkippedWithCache, last, stack>>

NextBatch ==
    \/ \E op \in BatchOps, departure \in Origins, horaires \in HorairesLists,
          weekend \in BOOLEAN : BatchCall(op, departure, horaires, weekend)
    \/ BatchFilter
    \/ BatchQuery
    \/ BatchNextHoraire
    \/ BatchReturn

SpecBatch == Init /\ [][NextBatch]_vars

-----------------------------------------------------------------------------
(* Schedule.__lt__ on its own *)

\* the clock values compared
ClockTimes == {Clock(h, m, 0) : h \in 7..9, m \in {0, 5, 30, 59}}

InitLt ==
    /\ network = NetworkOf({})
    /\ cache = EmptyCache
    /\ nbSkippedWithCache = 0
    /\ last = NoCall
    /\ stack = <<>>
    /\ batch = NoBatch

\* a client evaluates self < other, and other < self
Compare(self, other) ==
    /\ last' = [op |-> "lt", self |-> self, other |-> other,
                lt |-> Lt(self, other), gt |-> Lt(other, self)]
    /\ UNCHANGED <<batch, network, cache, nbSkippedWithCache, stack>>

NextLt == \E self \in ClockTimes, other \in ClockTimes : Compare(self, other)

SpecLt == InitLt /\ [][NextLt]_vars

-----------------------------------------------------------------------------
(* Termination *)

\* executed step by step, Stop.paths does what PathsRec computes
RunIsPathsRec ==
    last.op = "returned" =>
        [paths |-> last.paths, cache |-> cache, hits |-> nbSkippedWithCache]
        = PathsRec(network, last.cache, last.hits, last.origin,
                   last.terminus, last.departure, last.weekend, {})

\* C11: every call of Stop.paths, on networks with cycles too and whatever
\* the cache holds, returns a finite list: it never nests deeper than there
\* are stops, never ends in RecursionError, and once started it returns.
C11_Terminates ==
    /\ [](Len(stack) <= Cardinality(Stops))
    /\ [](last.op # "RecursionError")
    /\ (stack # <<>>) ~> (stack = <<>> /\ last.op = "returned")

\* C11 witness: on the ring with equal times, with entries in the cache, a
\* call has nested three frames deep and stands before a run that leads
\* back to a stop it came through
C11_Witness ==
    /\ Len(stack) >= 3
    /\ cache # EmptyCache
    /\ Top.i >= 1 /\ Top.i <= Len(NeighborsToSearch(Top))
    /\ LET e == NeighborsToSearch(Top)[Top.i]
       IN e.target \in Top.explored /\ ~Lt(e.dep, Top.departure)

-----------------------------------------------------------------------------
(* The order of clock values *)

\* C12: a < b is true exactly when a is before b in lexicographic
\* hour-then-minute order, and a < b and b < a are never both true.
C12_LtIsLexicographic ==
    last.op = "lt" =>
        /\ last.lt <=> LexLt(last.self, last.other)
        /\ ~(last.lt /\ last.gt)

-----------------------------------------------------------------------------
(* Properties of filter *)

Filtered == last.op \in {"filter", "network_filter"}

\* the selected list of stop `name`, restricted to the edges that leave, in
\* lexicographic order, not before the cutoff
NotBefore(name, horaire, weekend) ==
    LET l == IF weekend THEN network[name].neighborsWeekend
             ELSE network[name].neighbors
    IN SelectSeq(l, LAMBDA e : LexLe(horaire, e.dep))

\* C13: Stop.filter returns a stop of the same name whose edge list is the
\* selected list restricted, in order, to the edges leaving not before the
\* cutoff in lexicographic order; Network.filter does so for every stop.
C13_FilterExact ==
    /\ last.op = "filter" =>
          /\ last.result.name = last.name
          /\ last.result.neighbors
                = NotBefore(last.name, last.horaire, last.weekend)
    /\ last.op = "network_filter" =>
          /\ Len(last.result) = Len(StopList)
          /\ \A i \in DOMAIN StopList :
                /\ last.result[i].name = StopList[i]
                /\ last.result[i].neighbors
                      = NotBefore(StopList[i], last.horaire, last.weekend)

\* C14: Stop.filter and Network.filter leave the stops of the source network,
\* their weekday and weekend lists, and the cache as they were.
C14_FilterFrame ==
    [][Filtered' => /\ network' = network
                    /\ cache' = cache
                    /\ nbSkippedWithCache' = nbSkippedWithCache]_vars

\* C14 witness: with entries in the cache, a filter call returned a stop
\* with fewer edges than the source stop has
C14_Witness ==
    /\ last.op = "filter"
    /\ cache # EmptyCache
    /\ Len(last.result.neighbors) < Len(network[last.name].neighbors)
    /\ ~last.weekend

-----------------------------------------------------------------------------
(* The result of Stop.best_paths *)

Range(seq) == {seq[i] : i \in DOMAIN seq}

\* C15: Stop.best_paths raises NoPathException exactly when Stop.paths
\* returned the empty list; otherwise its first component is the number of
\* paths returned and the three others are paths of that list.
C15_BestPathsResult ==
    last.op = "best_paths" =>
        /\ last.raised <=> last.paths = <<>>
        /\ ~last.raised =>
              /\ last.best.count = Len(last.paths)
              /\ last.best.foremost \in Range(last.paths)
              /\ last.best.shortest \in Range(last.paths)
              /\ last.best.fastest \in Range(last.paths)

\* C15 witness: served from a warm cache, best_paths returned for a single
\* path
C15_Witness ==
    /\ Selected /\ ~last.cold
    /\ last.best.count = 1
    /\ last.best.foremost = last.paths[1]

-----------------------------------------------------------------------------
(* The cache across calls *)

CacheSize == Cardinality(DOMAIN cache)

\* C17: the cache never holds more than maxCache entries, and a query that
\* starts while the cache holds maxCache entries leaves the cache as it is.
C17_CacheBounded ==
    /\ [](CacheSize <= maxCache)
    /\ [][(CacheSize = maxCache /\ Called') => cache' = cache]_vars

\* C17 witness: the cache is full and the last query, which is neither the
\* base case nor answered from the cache, has stored nothing under its key
C17_Witness ==
    /\ last.op = "paths"
    /\ CacheSize = maxCache
    /\ last.origin # last.terminus
    /\ CacheKey(last.origin, last.terminus, last.departure)
           \notin DOMAIN cache

\* C18: a query keeps every entry of the cache, under the same key and with
\* the same path sequence; reset_cache leaves the cache empty and the hit
\* counter at 0.
C18_NoEviction ==
    /\ [][Called' => \A k \in DOMAIN cache :
                        k \in DOMAIN cache' /\ cache'[k] = cache[k]]_vars
    /\ [][last'.op = "reset_cache" =>
              cache' = EmptyCache /\ nbSkippedWithCache' = 0]_vars

\* C18 witness: a query that started on a warmed cache and was answered
\* from it at least once has returned with the cache full
C18_Witness ==
    /\ Called /\ ~last.cold
    /\ nbSkippedWithCache > 0
    /\ CacheSize = maxCache

\* C20: every path returned by a query with weekend = TRUE is built only
\* from edges of the neighborsWeekend lists, and every path returned by a
\* query with weekend = FALSE only from edges of the neighbors lists.
C20_DayTypeSeparation ==
    Called =>
        \A i \in DOMAIN last.paths :
            \A k \in DOMAIN last.paths[i].edges :
                last.paths[i].edges[k]
                    \in SelectedEdges(last.paths[i].stops[k], last.weekend)

-----------------------------------------------------------------------------
(* Properties of displayBestPaths and displayStats *)

RECURSIVE ExpectedFrom(_)
\* the destinations a batch has to query from cutoff number h on: for every
\* cutoff of the list, in order, every stop of the filtered network, in
\* order
ExpectedFrom(h) ==
    IF h > Len(batch.horaires) THEN <<>>
    ELSE LET stopsFiltered ==
                 NetworkFilter(network, batch.horaires[h], batch.weekend)
         IN [i \in DOMAIN stopsFiltered |->
                <<h, stopsFiltered[i].name>>] \o ExpectedFrom(h + 1)

\* the destinations queried so far
Queried ==
    [i \in DOMAIN batch.log |-> <<batch.log[i].h, batch.log[i].terminus>>]

\* the batch is at a statement from which it takes a step
Running ==
    \/ batch.pc = "horaire"
    \/ batch.pc = "stop" /\ batch.d \in 1..(Len(batch.dests) + 1)

\* C16: a batch is never stopped by a NoPathException: in every state of
\* a run the batch has not been left by an exception, the destinations
\* queried so far are the first ones of the list of all stops of the
\* filtered networks of all cutoffs, in order, whatever they signalled, a
\* batch that has not returned is at a statement from which it goes on,
\* and a batch that has returned has queried them all.
C16_BatchContinues ==
    /\ batch.pc # "aborted"
    /\ Len(Queried) <= Len(ExpectedFrom(1))
    /\ Queried = SubSeq(ExpectedFrom(1), 1, Len(Queried))
    /\ batch.pc \notin {"idle", "done"} => Running
    /\ batch.pc = "done" => Queried = ExpectedFrom(1)

\* C16 witness: a batch of two cutoffs has returned, a destination of its
\* first cutoff raised NoPathException and later destinations did not
C16_Witness ==
    /\ batch.pc = "done"
    /\ Len(batch.horaires) = 2
    /\ \E i, j \in DOMAIN batch.log :
          /\ i < j
          /\ batch.log[i].h = 1 /\ batch.log[i].raised
          /\ ~batch.log[j].raised

\* C19: when the queries of a cutoff begin, no entry of the cache was stored
\* by the queries of an earlier cutoff of the same batch call, nor by an
\* earlier batch call with the other weekend flag.
C19_BatchesShareNothing ==
    (batch.pc = "stop" /\ batch.d = 1) =>
        \A k \in DOMAIN cache :
            /\ ~(batch.born[k].calls = batch.calls
                    /\ batch.born[k].h < batch.h)
            /\ ~(batch.born[k].calls < batch.calls
                    /\ batch.born[k].weekend # batch.weekend)

-----------------------------------------------------------------------------
(* The paths Stop.paths returns *)

\* C21: every path a Stop.paths call returns, whatever the cache holds from
\* earlier calls, has at least one stop, starts at the origin of the call
\* and ends at its terminus; when the origin is the terminus the result is
\* the single path of the origin alone, departing and arriving at the
\* departure object of the query.
C21_Endpoints ==
    Called =>
        /\ \A i \in DOMAIN last.paths :
              /\ Len(last.paths[i].stops) >= 1
              /\ last.paths[i].stops[1] = last.origin
              /\ last.paths[i].stops[Len(last.paths[i].stops)]
                     = last.terminus
        /\ last.origin = last.terminus =>
              /\ Len(last.paths) = 1
              /\ last.paths[1].stops = <<last.origin>>
              /\ last.paths[1].departure = last.departure
              /\ last.paths[1].arrival = last.departure

\* C21 witness: a query answered with the help of the cache has returned a
\* path of three stops or more
C21_Witness ==
    /\ Called /\ ~last.cold
    /\ nbSkippedWithCache > 0
    /\ \E i \in DOMAIN last.paths : Len(last.paths[i].stops) >= 3

\* hour * 60 + minute of a Schedule
MinuteOfDay(t) == t.hour * 60 + t.minute

\* C22: a returned path of two stops or more departs at the departure of
\* the first edge traversed, an edge that leaves the origin, and arrives at
\* the arrival of the last edge traversed, an edge into the terminus; its
\* duration is that arrival minus that departure, in minutes.
C22_PathTimes ==
    Called =>
        \A i \in DOMAIN last.paths :
            LET p == last.paths[i]
                n == Len(p.edges)
            IN Len(p.stops) >= 2 =>
                  /\ EdgesMatch(p)
                  /\ n >= 1
                  /\ p.edges[n].target = last.terminus
                  /\ \E w \in BOOLEAN :
                        p.edges[1] \in SelectedEdges(last.origin, w)
                  /\ SameTime(p.departure, p.edges[1].dep)
                  /\ SameTime(p.arrival, p.edges[n].arr)
                  /\ PathDuration(p) = MinuteOfDay(p.edges[n].arr)
                                           - MinuteOfDay(p.edges[1].dep)

\* C22 witness: a returned path of three stops leaves later than the query
\* asked for and arrives in a later hour than it leaves
C22_Witness ==
    /\ Called
    /\ \E i \in DOMAIN last.paths :
          /\ Len(last.paths[i].stops) >= 3
          /\ ~SameTime(last.paths[i].departure, last.departure)
          /\ last.paths[i].arrival.hour > last.paths[i].departure.hour

\* every Schedule object of the program
Clocks ==
    QueryTimes \cup FilterTimes
        \cup {Timetable[i].edge.dep : i \in DOMAIN Timetable}
        \cup {Timetable[i].edge.arr : i \in DOMAIN Timetable}

\* the Schedule object a cache key holds
ClockOf(id) == CHOOSE t \in Clocks : t.id = id

\* the keys under which the cache holds a result for this origin, this
\* terminus and a departure with the hour and minute of this departure
Memoized(origin, terminus, departure) ==
    {k \in DOMAIN cache :
        /\ k[1] = origin
        /\ k[2] = terminus
        /\ SameTime(ClockOf(k[3]), departure)}

\* C23: a Stop.paths call whose origin, terminus and departure time have a
\* result stored in the cache is served from the cache: the hit counter
\* grows by one, nothing is computed or stored, and the stored sequence is
\* returned, whichever Schedule object carries the departure time.
C23_Memoized ==
    [][(/\ last'.op = "paths"
        /\ Memoized(last'.origin, last'.terminus, last'.departure) # {})
       => /\ nbSkippedWithCache' = nbSkippedWithCache + 1
          /\ cache' = cache
          /\ \E k \in Memoized(last'.origin, last'.terminus,
                               last'.departure) :
                last'.paths = cache[k]]_vars

====
